---- MODULE Spec2Model ----
(***************************************************************************)
(* The workflow controller of the AI Code Reviewer front end               *)
(* (frontend/src/App.jsx), its HTTP client adapter (api/client) and the    *)
(* placeholder controller that precedes it in App.jsx.                     *)
(*                                                                         *)
(* Texts (editor content, messages, server strings) are sequences of       *)
(* tokens; the empty string '' is <<>>.  A JavaScript object is a record,  *)
(* a property that is undefined is a field the record does not have.       *)
(* The emoji that open the status messages are left out of the tokens.     *)
(***************************************************************************)
EXTENDS Integers, Sequences, FiniteSets, TLC

VARIABLES
    code,         \* useState(DEFAULT_CODE): the editor buffer
    findings,     \* useState([]): the findings list
    patchedCode,  \* useState(''): the pending fix of the active controller
    loading,      \* useState(false): the busy flag
    message,      \* useState(''): the status message
    net,          \* the promises of the remote calls that have not been consumed
    diff,         \* useState(''): the pending diff of the placeholder controller
    timers,       \* the setTimeout callbacks of the placeholder controller
    lastEvent     \* history: the handler, callback or network event of the last step

vars == <<code, findings, patchedCode, loading, message, net, diff, timers, lastEvent>>

----------------------------------------------------------------------------
(* Bounds of the model. *)

\* Longest findings list a server response carries.
MaxFindings == 2

\* Longest editor buffer (in tokens) the placeholder's Apply Patch may grow.
MaxCodeLen == 6

----------------------------------------------------------------------------
(* JavaScript helpers. *)

\* o.f is not undefined.
Has(o, f) == f \in DOMAIN o

\* An object with no properties.
EmptyObject == [f \in {} |-> f]

\* Truthiness of the string property o.f (undefined and '' are falsy).
TruthyText(o, f) == Has(o, f) /\ o[f] # <<>>

\* All sequences over S of length at most n.
SeqUpTo(S, n) == UNION {[1..k -> S] : k \in 0..n}

\* seq without its i-th element.
RemoveAt(seq, i) == SubSeq(seq, 1, i - 1) \o SubSeq(seq, i + 1, Len(seq))

----------------------------------------------------------------------------
(* Constants of the program and the inputs the environment chooses from. *)

DEFAULT_CODE ==
    <<"# Paste your Python code here\nprint('Hello, AI ", "Reviewer!", "')">>

FIXED_PATH == <<"main.py">>

\* What the user may type into the editor (onChange's value; it may be
\* undefined, which is the event without a value).
EditorEvents ==
    { [ev |-> "change"],
      [ev |-> "change", value |-> <<>>],
      [ev |-> "change", value |-> <<"print('x')">>] }

\* The findings a server may report.
FindingPool ==
    { [line |-> 1, type |-> "info",    message |-> <<"No issues">>,       rule |-> <<"OK">>],
      [line |-> 1, type |-> "warning", message |-> <<"Unused variable">>, rule |-> <<"W0612">>],
      [line |-> 2, type |-> "error",   message |-> <<"Syntax error">>,    rule |-> <<"E0001">>] }

FindingLists == SeqUpTo(FindingPool, MaxFindings)

\* Bodies of a 2xx answer to POST /api/analyze.
AnalyzeData == {EmptyObject} \cup {[findings |-> l] : l \in FindingLists}

PatchTexts == { <<"print('y')">>, <<"print('z')">> }
Explanations == { <<"Removed the unused variable">> }

\* Bodies of a 2xx answer to POST /api/generate_fix.
FixData ==
    LET succ  == {[success |-> b] : b \in BOOLEAN}
        patch == {EmptyObject} \cup {[patched_code |-> p] : p \in PatchTexts \cup {<<>>}}
        expl  == {EmptyObject} \cup {[explanation |-> e] : e \in Explanations \cup {<<>>}}
    IN  {s @@ p @@ e : s \in succ, p \in patch, e \in expl}

\* What axios rejects with: a transport error has no response, a non-2xx
\* answer has one, whose body may carry a detail.
Errors ==
    { [message |-> <<"Network Error">>],
      [message |-> <<"Request failed with status code 500">>,
       response |-> [data |-> EmptyObject]],
      [message |-> <<"Request failed with status code 500">>,
       response |-> [data |-> [detail |-> <<>>]]],
      [message |-> <<"Request failed with status code 422">>,
       response |-> [data |-> [detail |-> <<"Invalid code">>]]] }

----------------------------------------------------------------------------
(* The HTTP client adapter. *)

post(url, body) == [url |-> url, body |-> body]

analyzeCode(files) == post("/api/analyze", [files |-> files])

generateFix(path, src, issue) ==
    post("/api/generate_fix", [path |-> path, code |-> src, issue |-> issue])

\* Defined by the adapter, called by neither controller.
applyPatch(files, patch) == post("/api/apply_patch", [files |-> files, patch |-> patch])

\* A call that was dispatched and whose promise is pending.
Dispatched(req) == [req |-> req, state |-> "pending"]

----------------------------------------------------------------------------
(* Status messages of the active controller. *)

MsgAnalyzing     == <<"Analyzing your code...">>
MsgNoIssues      == <<"No issues found! Your code looks great.">>
MsgFound(n)      == <<"Found ", ToString(n), " issue(s) that need attention.">>
MsgNothingToFix  == <<"Nothing to fix!">>
MsgGenerating    == <<"AI is generating a fix...">>
MsgFixDefault    == <<"Fix generated successfully!">>
MsgCouldNotFix   == <<"Could not generate fix. Try manual correction.">>
MsgNoFix         == <<"No fix available to apply">>
MsgApplied       == <<"Fix applied! Run Analyze again to verify.">>

\* Mutant: the server's detail is ignored.
ErrorDetailOwnMessage(error) == error.message

\* error.response?.data?.detail || error.message
ErrorDetail(error) ==
    IF Has(error, "response") /\ Has(error.response, "data")
       /\ TruthyText(error.response.data, "detail")
    THEN error.response.data.detail
    ELSE error.message

MsgError(error) == <<"Error: ">> \o ErrorDetail(error)

\* findings.length === 0 || findings[0]?.type === 'info'
NoRealIssue(list) == IF Len(list) = 0 THEN TRUE ELSE list[1].type = "info"

----------------------------------------------------------------------------
(* The active controller: what the three buttons and the editor do. *)

\* Mutant: the Analyze button without its disabled attribute.
AnalyzeDisabledNever == FALSE

\* <button onClick={handleAnalyze} disabled={loading}>
AnalyzeDisabled == loading

\* Mutant: the Generate Fix button without the test for the info sentinel.
FixDisabledNoSentinel == loading \/ Len(findings) = 0

\* <button onClick={handleAutoFix}
\*         disabled={loading || findings.length === 0 || findings[0]?.type === 'info'}>
FixDisabled == loading \/ NoRealIssue(findings)

\* <button onClick={handleApplyPatch} disabled={loading || !patchedCode}>
ApplyDisabled == loading \/ patchedCode = <<>>

\* Mutant: handleAnalyze without its setPatchedCode('').
handleAnalyzeKeepsPending ==
    /\ loading' = TRUE
    /\ message' = MsgAnalyzing
    /\ net' = Append(net, Dispatched(analyzeCode(<<[path |-> FIXED_PATH, content |-> code]>>)))
    /\ UNCHANGED <<code, findings, patchedCode, diff, timers>>

\* handleAnalyze up to its await: the flags are set and the call is dispatched
\* with the buffer of the render the click happened in.
handleAnalyze ==
    /\ loading' = TRUE
    /\ message' = MsgAnalyzing
    /\ patchedCode' = <<>>
    /\ net' = Append(net, Dispatched(analyzeCode(<<[path |-> FIXED_PATH, content |-> code]>>)))
    /\ UNCHANGED <<code, findings, diff, timers>>

\* response.data.findings || []
IssuesOf(data) == IF Has(data, "findings") THEN data.findings ELSE <<>>

\* Mutant: the status chosen without the test for the info sentinel.
AnalyzeStatusNoSentinel(issues) ==
    IF Len(issues) = 0 THEN MsgNoIssues ELSE MsgFound(Len(issues))

\* Mutant: the status counts only the findings that are not info.
AnalyzeStatusCountsReal(issues) ==
    IF NoRealIssue(issues)
    THEN MsgNoIssues
    ELSE MsgFound(Cardinality({k \in 1..Len(issues) : issues[k].type # "info"}))

\* The status handleAnalyze sets for the issues of a 2xx answer.
AnalyzeStatus(issues) ==
    IF NoRealIssue(issues) THEN MsgNoIssues ELSE MsgFound(Len(issues))

\* Mutant: setLoading(false) at the end of the try block instead of in a
\* finally block, so that a rejected call leaves the busy flag up.
AnalyzeSettlesNoFinally(i) ==
    /\ net[i].req.url = "/api/analyze"
    /\ net[i].state # "pending"
    /\ IF net[i].state = "fulfilled"
       THEN /\ findings' = IssuesOf(net[i].response.data)
            /\ message' = IF NoRealIssue(IssuesOf(net[i].response.data))
                          THEN MsgNoIssues
                          ELSE MsgFound(Len(IssuesOf(net[i].response.data)))
            /\ loading' = FALSE
       ELSE /\ message' = MsgError(net[i].error)
            /\ findings' = <<>>
            /\ UNCHANGED loading
    /\ net' = RemoveAt(net, i)
    /\ UNCHANGED <<code, patchedCode, diff, timers>>

\* handleAnalyze after its await, for the call net[i]: the try block's rest
\* when the promise is fulfilled, the catch block when it is rejected, and
\* the finally block.
AnalyzeSettles(i) ==
    /\ net[i].req.url = "/api/analyze"
    /\ net[i].state # "pending"
    /\ IF net[i].state = "fulfilled"
       THEN LET issues == IssuesOf(net[i].response.data)
            IN  /\ findings' = issues
                /\ message' = AnalyzeStatus(issues)
       ELSE /\ message' = MsgError(net[i].error)
            /\ findings' = <<>>
    /\ loading' = FALSE
    /\ net' = RemoveAt(net, i)
    /\ UNCHANGED <<code, patchedCode, diff, timers>>

\* Mutant: the issue is built from the last finding.
FixIssueLast(list) ==
    [rule |-> list[Len(list)].rule, message |-> list[Len(list)].message,
     line |-> list[Len(list)].line]

\* The issue argument handleAutoFix builds from the first finding.
FixIssue(list) ==
    [rule |-> list[1].rule, message |-> list[1].message, line |-> list[1].line]

\* handleAutoFix up to its await.
handleAutoFix ==
    IF NoRealIssue(findings)
    THEN /\ message' = MsgNothingToFix
         /\ UNCHANGED <<code, findings, patchedCode, loading, net, diff, timers>>
    ELSE /\ loading' = TRUE
         /\ message' = MsgGenerating
         /\ net' = Append(net, Dispatched(generateFix(FIXED_PATH, code, FixIssue(findings))))
         /\ UNCHANGED <<code, findings, patchedCode, diff, timers>>

\* Mutant: the success flag is ignored.
FixUsableIgnoresSuccess(data) == TruthyText(data, "patched_code")

\* response.data.success && response.data.patched_code
FixUsable(data) ==
    /\ Has(data, "success") /\ data.success
    /\ TruthyText(data, "patched_code")

\* Mutant: the default stands in for an undefined explanation only (?? for ||).
FixStatusNoDefault(data) ==
    IF Has(data, "explanation") THEN data.explanation ELSE MsgFixDefault

\* response.data.explanation || 'Fix generated successfully!'
FixStatus(data) ==
    IF TruthyText(data, "explanation") THEN data.explanation ELSE MsgFixDefault

\* Mutant: an answer is dropped when the buffer is no longer the one sent.
AutoFixSettlesDropsStale(i) ==
    /\ net[i].req.url = "/api/generate_fix"
    /\ net[i].state # "pending"
    /\ IF net[i].req.body.code # code
       THEN UNCHANGED <<patchedCode, message>>
       ELSE IF net[i].state = "fulfilled"
       THEN IF FixUsable(net[i].response.data)
            THEN /\ patchedCode' = net[i].response.data.patched_code
                 /\ message' = FixStatus(net[i].response.data)
            ELSE /\ message' = MsgCouldNotFix
                 /\ UNCHANGED patchedCode
       ELSE /\ message' = MsgError(net[i].error)
            /\ UNCHANGED patchedCode
    /\ loading' = FALSE
    /\ net' = RemoveAt(net, i)
    /\ UNCHANGED <<code, findings, diff, timers>>

\* Mutant: the catch block of handleAutoFix also discards the pending fix.
AutoFixSettlesClearsOnError(i) ==
    /\ net[i].req.url = "/api/generate_fix"
    /\ net[i].state # "pending"
    /\ IF net[i].state = "fulfilled"
       THEN IF FixUsable(net[i].response.data)
            THEN /\ patchedCode' = net[i].response.data.patched_code
                 /\ message' = FixStatus(net[i].response.data)
            ELSE /\ message' = MsgCouldNotFix
                 /\ UNCHANGED patchedCode
       ELSE /\ message' = MsgError(net[i].error)
            /\ patchedCode' = <<>>
    /\ loading' = FALSE
    /\ net' = RemoveAt(net, i)
    /\ UNCHANGED <<code, findings, diff, timers>>

\* handleAutoFix after its await, for the call net[i].
AutoFixSettles(i) ==
    /\ net[i].req.url = "/api/generate_fix"
    /\ net[i].state # "pending"
    /\ IF net[i].state = "fulfilled"
       THEN IF FixUsable(net[i].response.data)
            THEN /\ patchedCode' = net[i].response.data.patched_code
                 /\ message' = FixStatus(net[i].response.data)
            ELSE /\ message' = MsgCouldNotFix
                 /\ UNCHANGED patchedCode
       ELSE /\ message' = MsgError(net[i].error)
            /\ UNCHANGED patchedCode
    /\ loading' = FALSE
    /\ net' = RemoveAt(net, i)
    /\ UNCHANGED <<code, findings, diff, timers>>

\* Mutant: handleApplyPatch sends the fix to the adapter's applyPatch.
handleApplyPatchRemote ==
    IF patchedCode = <<>>
    THEN /\ message' = MsgNoFix
         /\ UNCHANGED <<code, findings, patchedCode, loading, net, diff, timers>>
    ELSE /\ net' = Append(net, Dispatched(applyPatch(
                        <<[path |-> FIXED_PATH, content |-> code]>>, patchedCode)))
         /\ code' = patchedCode
         /\ patchedCode' = <<>>
         /\ findings' = <<>>
         /\ message' = MsgApplied
         /\ loading' = FALSE
         /\ UNCHANGED <<diff, timers>>

\* Mutant: handleApplyPatch without its setPatchedCode('').
handleApplyPatchKeepsPending ==
    IF patchedCode = <<>>
    THEN /\ message' = MsgNoFix
         /\ UNCHANGED <<code, findings, patchedCode, loading, net, diff, timers>>
    ELSE /\ code' = patchedCode
         /\ findings' = <<>>
         /\ message' = MsgApplied
         /\ loading' = FALSE
         /\ UNCHANGED <<patchedCode, net, diff, timers>>

\* Mutant: handleApplyPatch without its early return.
handleApplyPatchUnguarded ==
    /\ code' = patchedCode
    /\ patchedCode' = <<>>
    /\ findings' = <<>>
    /\ message' = MsgApplied
    /\ loading' = FALSE
    /\ UNCHANGED <<net, diff, timers>>

\* Mutant: handleApplyPatch without the setLoading(false) of its finally block.
handleApplyPatchStaysBusy ==
    IF patchedCode = <<>>
    THEN /\ message' = MsgNoFix
         /\ UNCHANGED <<code, findings, patchedCode, loading, net, diff, timers>>
    ELSE /\ code' = patchedCode
         /\ patchedCode' = <<>>
         /\ findings' = <<>>
         /\ message' = MsgApplied
         /\ loading' = TRUE
         /\ UNCHANGED <<net, diff, timers>>

\* handleApplyPatch: it has no await, so it runs to its end within the click
\* and the setLoading(true) of its start is overwritten by its finally block
\* before anything is rendered.
handleApplyPatch ==
    IF patchedCode = <<>>
    THEN /\ message' = MsgNoFix
         /\ UNCHANGED <<code, findings, patchedCode, loading, net, diff, timers>>
    ELSE /\ code' = patchedCode
         /\ patchedCode' = <<>>
         /\ findings' = <<>>
         /\ message' = MsgApplied
         /\ loading' = FALSE
         /\ UNCHANGED <<net, diff, timers>>

\* Mutant: an edit also discards the findings of the earlier buffer.
onChangeClearsFindings(ev) ==
    /\ code' = IF TruthyText(ev, "value") THEN ev.value ELSE <<>>
    /\ findings' = <<>>
    /\ UNCHANGED <<patchedCode, loading, message, net, diff, timers>>

\* onChange={(value) => setCode(value || '')}
onChange(ev) ==
    /\ code' = IF TruthyText(ev, "value") THEN ev.value ELSE <<>>
    /\ UNCHANGED <<findings, patchedCode, loading, message, net, diff, timers>>

----------------------------------------------------------------------------
(* The placeholder controller (the first App of App.jsx): its handlers are *)
(* stubs that answer from timers, and it keeps a unified diff in `diff`.   *)

\* The findings its handleAnalyze timer sets.
STUB_FINDINGS ==
    << [line |-> 1, type |-> "warning",
        message |-> <<"Example warning: Unused variable">>, rule |-> <<"W0612">>] >>

\* The diff its handleAutoFix timer sets.
STUB_DIFF ==
    <<"--- a/main.py\n+++ b/main.py\n@@ -1,2 +1,2 @@\n-print('Hello, AI ", "Reviewer!",
      "')\n+print('Hello, AI ", "Code ", "Reviewer!", "')">>

\* What the user may type into the placeholder's editor.
StubEditorEvents ==
    { [ev |-> "change", value |-> <<>>],
      [ev |-> "change", value |-> <<"print('x')">>],
      [ev |-> "change", value |-> <<"Reviewer!">>],
      [ev |-> "change", value |-> <<"x = '", "Reviewer!", "' + '", "Reviewer!", "'">>] }

\* String.prototype.replace(pat, rep) with a string pattern: the first
\* occurrence of pat is replaced, a text without pat is returned as it is.
Replace(s, pat, rep) ==
    IF \E i \in 1..Len(s) : s[i] = pat
    THEN LET i == CHOOSE k \in 1..Len(s) : s[k] = pat /\ \A j \in 1..(k - 1) : s[j] # pat
         IN  SubSeq(s, 1, i - 1) \o rep \o SubSeq(s, i + 1, Len(s))
    ELSE s

\* <button onClick={handleAnalyze} disabled={loading}>
StubAnalyzeDisabled == loading

\* <button onClick={handleAutoFix} disabled={loading}>
StubFixDisabled == loading

\* <button onClick={handleApplyPatch} disabled={!diff || loading}>
StubApplyDisabled == diff = <<>> \/ loading

\* handleAnalyze of the placeholder: setLoading(true) and a timer.
handleAnalyzeStub ==
    /\ loading' = TRUE
    /\ timers' = Append(timers, "analyze")
    /\ UNCHANGED <<code, findings, patchedCode, message, net, diff>>

\* handleAutoFix of the placeholder: setLoading(true) and a timer.
handleAutoFixStub ==
    /\ loading' = TRUE
    /\ timers' = Append(timers, "autofix")
    /\ UNCHANGED <<code, findings, patchedCode, message, net, diff>>

\* The callback of timers[i].
timerCallback(i) ==
    /\ IF timers[i] = "analyze"
       THEN findings' = STUB_FINDINGS /\ UNCHANGED diff
       ELSE diff' = STUB_DIFF /\ UNCHANGED findings
    /\ loading' = FALSE
    /\ timers' = RemoveAt(timers, i)
    /\ UNCHANGED <<code, patchedCode, message, net>>

\* handleApplyPatch of the placeholder ("TODO: Apply patch to code").
handleApplyPatchStub ==
    /\ code' = Replace(code, "Reviewer!", <<"Code ", "Reviewer!">>)
    /\ diff' = <<>>
    /\ UNCHANGED <<findings, patchedCode, loading, message, net, timers>>

\* onChange={setCode}
onChangeStub(ev) ==
    /\ code' = ev.value
    /\ UNCHANGED <<findings, patchedCode, loading, message, net, diff, timers>>

----------------------------------------------------------------------------
(* The environment: the user and the server. *)

\* A click reaches a handler only when its button is not disabled.
ClickAnalyze == ~AnalyzeDisabled /\ handleAnalyze /\ lastEvent' = "analyze"

ClickGenerateFix == ~FixDisabled /\ handleAutoFix /\ lastEvent' = "autofix"

ClickApplyFix == ~ApplyDisabled /\ handleApplyPatch /\ lastEvent' = "apply"

UserEdits == \E ev \in EditorEvents : onChange(ev) /\ lastEvent' = "edit"

\* The bodies a 2xx answer to req may carry.
DataFor(req) == IF req.url = "/api/analyze" THEN AnalyzeData ELSE FixData

\* The server answers a pending call with a 2xx: axios fulfils the promise.
ServerAnswers ==
    \E i \in DOMAIN net :
        /\ net[i].state = "pending"
        /\ \E d \in DataFor(net[i].req) :
               net' = [net EXCEPT ![i] =
                          [req |-> net[i].req, state |-> "fulfilled", response |-> [data |-> d]]]
        /\ lastEvent' = "fulfilled"
        /\ UNCHANGED <<code, findings, patchedCode, loading, message, diff, timers>>

\* The call fails (transport error or non-2xx): axios rejects the promise.
CallFails ==
    \E i \in DOMAIN net :
        /\ net[i].state = "pending"
        /\ \E e \in Errors :
               net' = [net EXCEPT ![i] =
                          [req |-> net[i].req, state |-> "rejected", error |-> e]]
        /\ lastEvent' = "rejected"
        /\ UNCHANGED <<code, findings, patchedCode, loading, message, diff, timers>>

AnalyzeReturns == \E i \in DOMAIN net : AnalyzeSettles(i) /\ lastEvent' = "analyzeSettled"

GenerateFixReturns == \E i \in DOMAIN net : AutoFixSettles(i) /\ lastEvent' = "autofixSettled"

Init ==
    /\ code = DEFAULT_CODE
    /\ findings = <<>>
    /\ patchedCode = <<>>
    /\ loading = FALSE
    /\ message = <<>>
    /\ net = <<>>
    /\ diff = <<>>
    /\ timers = <<>>
    /\ lastEvent = "init"

Next ==
    \/ ClickAnalyze
    \/ ClickGenerateFix
    \/ ClickApplyFix
    \/ UserEdits
    \/ ServerAnswers
    \/ CallFails
    \/ AnalyzeReturns
    \/ GenerateFixReturns

\* The active controller as the user drives it.
Spec == Init /\ [][Next]_vars

\* The active controller when every dispatched call is answered or fails and
\* the event loop runs every continuation whose promise has settled.
SpecLive ==
    /\ Init
    /\ [][Next]_vars
    /\ WF_vars(ServerAnswers \/ CallFails)
    /\ WF_vars(AnalyzeReturns)
    /\ WF_vars(GenerateFixReturns)

\* The handlers called where their own guards decide: handleAutoFix with no
\* finding to fix and handleApplyPatch with no fix to apply, which the
\* disabled buttons keep a click from reaching.
CallHandleAutoFix == NoRealIssue(findings) /\ handleAutoFix /\ lastEvent' = "autofix"

CallHandleApplyPatch == patchedCode = <<>> /\ handleApplyPatch /\ lastEvent' = "apply"

NextHandlers == Next \/ CallHandleAutoFix \/ CallHandleApplyPatch

\* The active controller with its handlers also called past the buttons.
SpecHandlers == Init /\ [][NextHandlers]_vars

\* The placeholder controller as the user drives it.
StubClickAnalyze == ~StubAnalyzeDisabled /\ handleAnalyzeStub /\ lastEvent' = "analyze"

StubClickAutoFix == ~StubFixDisabled /\ handleAutoFixStub /\ lastEvent' = "autofix"

StubClickApplyPatch ==
    /\ ~StubApplyDisabled
    /\ Len(Replace(code, "Reviewer!", <<"Code ", "Reviewer!">>)) <= MaxCodeLen
    /\ handleApplyPatchStub
    /\ lastEvent' = "apply"

StubUserEdits == \E ev \in StubEditorEvents : onChangeStub(ev) /\ lastEvent' = "edit"

TimerFires == \E i \in DOMAIN timers : timerCallback(i) /\ lastEvent' = "timer"

NextStub ==
    \/ StubClickAnalyze
    \/ StubClickAutoFix
    \/ StubClickApplyPatch
    \/ StubUserEdits
    \/ TimerFires

SpecStub == Init /\ [][NextStub]_vars

----------------------------------------------------------------------------
(* Vocabulary of the properties. *)

\* The step consumes the settled call net[i].
Consumes(i) == net[i].state # "pending" /\ net' = RemoveAt(net, i)

\* The number of generate_fix calls in a net.
FixCalls(n) == Cardinality({i \in DOMAIN n : n[i].req.url = "/api/generate_fix"})

\* A findings list with nothing to fix: empty, or led by an info finding.
NothingToFix(list) == list = <<>> \/ list[1].type = "info"

----------------------------------------------------------------------------
(* Properties of the active controller. *)

\* C1: at most one remote call is in flight in every reachable state, and
\* while one is in flight no Analyze, Generate Fix or Apply Fix starts: the
\* step neither dispatches a call nor runs a handler.
C1_OneActionAtATime ==
    /\ [](Len(net) <= 1)
    /\ [][net # <<>> =>
            /\ Len(net') <= Len(net)
            /\ lastEvent' \notin {"analyze", "autofix", "apply"}]_vars

\* C1 witness: a generate_fix call is in flight while a pending fix is present.
C1_Witness ==
    /\ Len(net) = 1
    /\ net[1].req.url = "/api/generate_fix"
    /\ patchedCode # <<>>
    /\ loading

\* C2: with no finding to fix (findings empty or led by an info finding) the
\* Generate Fix button is disabled, and a Generate Fix run from such a state
\* dispatches no generate_fix call and does not set the busy flag.
C2_NoFixWithoutIssue ==
    /\ [](NothingToFix(findings) => FixDisabled)
    /\ [][NothingToFix(findings) =>
            /\ FixCalls(net') <= FixCalls(net)
            /\ (lastEvent' = "autofix" => net' = net /\ loading' = loading)]_vars

\* C2 witness: handleAutoFix has run with an info finding leading the list.
C2_Witness ==
    /\ lastEvent = "autofix"
    /\ findings # <<>>
    /\ findings[1].type = "info"
    /\ message = MsgNothingToFix
    /\ net = <<>>
    /\ ~loading

\* C3: with no pending fix the Apply Fix button is disabled, and an Apply Fix
\* run from such a state changes neither the buffer nor the findings.
C3_NoApplyWithoutPending ==
    /\ [](patchedCode = <<>> => ApplyDisabled)
    /\ [][(patchedCode = <<>> /\ lastEvent' = "apply") =>
            UNCHANGED <<code, findings>>]_vars

\* C3 witness: handleApplyPatch has run with no pending fix, findings and a
\* non-empty buffer being there to lose.
C3_Witness ==
    /\ lastEvent = "apply"
    /\ message = MsgNoFix
    /\ patchedCode = <<>>
    /\ findings # <<>>
    /\ code # <<>>

\* C6: when a fulfilled analyze call is consumed whose answer has no findings,
\* an empty list or a list led by an info finding, the status becomes the
\* no-issues message and no issue count.
C6_NoIssuesStatus ==
    [][\A i \in DOMAIN net :
          (/\ Consumes(i)
           /\ net[i].req.url = "/api/analyze"
           /\ net[i].state = "fulfilled"
           /\ \/ ~Has(net[i].response.data, "findings")
              \/ NothingToFix(net[i].response.data.findings))
          => /\ message' = <<"No issues found! Your code looks great.">>
             /\ \A k \in DOMAIN message' : message'[k] # "Found "]_vars

\* C6 witness: the no-issues status stands next to a stored info finding
\* that is followed by a real one.
C6_Witness ==
    /\ lastEvent = "analyzeSettled"
    /\ message = MsgNoIssues
    /\ Len(findings) = 2
    /\ findings[1].type = "info"
    /\ findings[2].type # "info"

\* C7: when a fulfilled analyze call is consumed whose findings are not empty
\* and not led by an info finding, the status carries the decimal number of
\* the findings of the answer, which is the length of the stored list.
C7_IssueCountStatus ==
    [][\A i \in DOMAIN net :
          (/\ Consumes(i)
           /\ net[i].req.url = "/api/analyze"
           /\ net[i].state = "fulfilled"
           /\ Has(net[i].response.data, "findings")
           /\ ~NothingToFix(net[i].response.data.findings))
          => /\ message' = <<"Found ", ToString(Len(net[i].response.data.findings)),
                             " issue(s) that need attention.">>
             /\ Len(findings') = Len(net[i].response.data.findings)]_vars

\* C7 witness: two findings, the second of them info, counted as 2.
C7_Witness ==
    /\ lastEvent = "analyzeSettled"
    /\ Len(findings) = 2
    /\ findings[1].type = "error"
    /\ findings[2].type = "info"
    /\ message[2] = "2"

\* C8: a Generate Fix click adds exactly one call to the net, a generate_fix
\* for the fixed path and the buffer whose issue is the rule, message and
\* line of the first finding as it is when the click happens.
C8_FirstFindingOnly ==
    [][lastEvent' = "autofix" =>
          net' = Append(net,
                    [req |-> [url |-> "/api/generate_fix",
                              body |-> [path |-> <<"main.py">>, code |-> code,
                                        issue |-> [rule    |-> findings[1].rule,
                                                   message |-> findings[1].message,
                                                   line    |-> findings[1].line]]],
                     state |-> "pending"])]_vars

\* C8 witness: a call was dispatched from two different findings.
C8_Witness ==
    /\ lastEvent = "autofix"
    /\ Len(net) = 1
    /\ Len(findings) = 2
    /\ findings[1] # findings[2]
    /\ net[1].req.body.issue.rule = findings[1].rule

\* C9: when a rejected analyze call is consumed, findings is empty, no fix is
\* pending, the busy flag is down and the status is the error's detail: the
\* server's when the answer carries a non-empty one, else the error's own
\* message.
C9_AnalyzeFailure ==
    [][\A i \in DOMAIN net :
          (/\ Consumes(i)
           /\ net[i].req.url = "/api/analyze"
           /\ net[i].state = "rejected")
          => LET e == net[i].error
                 served == /\ "response" \in DOMAIN e
                           /\ "detail" \in DOMAIN e.response.data
                           /\ e.response.data.detail # <<>>
             IN  /\ findings' = <<>>
                 /\ patchedCode' = <<>>
                 /\ loading' = FALSE
                 /\ message' = <<"Error: ">> \o
                        (IF served THEN e.response.data.detail ELSE e.message)]_vars

\* C9 witness: the server's detail is the status after a failed analyze.
C9_Witness ==
    /\ lastEvent = "analyzeSettled"
    /\ message = <<"Error: ", "Invalid code">>
    /\ findings = <<>>
    /\ patchedCode = <<>>
    /\ ~loading

\* C10 as stated: when a fulfilled generate_fix call is consumed whose answer
\* has success false or no patched text, no fix is pending afterwards and the
\* status says that no fix could be produced.
C10_PendingAbsentAfterNoFix ==
    [][\A i \in DOMAIN net :
          (/\ Consumes(i)
           /\ net[i].req.url = "/api/generate_fix"
           /\ net[i].state = "fulfilled"
           /\ \/ ~net[i].response.data.success
              \/ ~Has(net[i].response.data, "patched_code")
              \/ net[i].response.data.patched_code = <<>>)
          => /\ patchedCode' = <<>>
             /\ message' = MsgCouldNotFix]_vars

\* C10 amended: when such an answer is consumed, the pending fix is left as
\* it was before the call (absent if it was absent, an earlier fix still
\* pending) and the status says that no fix could be produced.
C10_PendingKeptAfterNoFix ==
    [][\A i \in DOMAIN net :
          (/\ Consumes(i)
           /\ net[i].req.url = "/api/generate_fix"
           /\ net[i].state = "fulfilled"
           /\ \/ ~net[i].response.data.success
              \/ ~Has(net[i].response.data, "patched_code")
              \/ net[i].response.data.patched_code = <<>>)
          => /\ patchedCode' = patchedCode
             /\ message' = <<"Could not generate fix. Try manual correction.">>]_vars

\* C10 witness: no fix could be produced and an earlier fix is still pending.
C10_Witness ==
    /\ lastEvent = "autofixSettled"
    /\ message = MsgCouldNotFix
    /\ patchedCode # <<>>

----------------------------------------------------------------------------
(* Properties of Apply Fix in both controllers.  The pending fix is         *)
(* patchedCode in the active controller and diff in the placeholder.        *)

\* C4: after Apply Fix has run from a state with a pending fix, findings is
\* empty and no fix is pending.
C4_ApplyClears ==
    [][(lastEvent' = "apply" /\ (patchedCode # <<>> \/ diff # <<>>)) =>
          /\ findings' = <<>>
          /\ patchedCode' = <<>>
          /\ diff' = <<>>]_vars

\* C5: after Apply Fix has run from a state with a pending fix, the buffer is
\* the text that was pending, whatever the buffer held.
C5_ApplyReplacesBuffer ==
    [][(lastEvent' = "apply" /\ (patchedCode # <<>> \/ diff # <<>>)) =>
          code' = IF patchedCode # <<>> THEN patchedCode ELSE diff]_vars

----------------------------------------------------------------------------
(* Further properties of the active controller. *)

\* C11: the busy flag is up exactly in the states in which one remote call
\* is outstanding (dispatched and not yet consumed by its handler): it is
\* never up with no call outstanding, Apply Fix included, and no call is
\* outstanding while it is down.
C11_BusyIffOneCall == loading <=> Len(net) = 1

\* C11 witness: Apply Fix has run, it has made no call and the flag is down.
C11_Witness ==
    /\ lastEvent = "apply"
    /\ message = MsgApplied
    /\ net = <<>>
    /\ ~loading

\* C12: once Analyze, Generate Fix or Apply Fix has started, the controller
\* comes back to a state with the busy flag down, no call outstanding and a
\* status message that is not empty.
C12_BackToIdle ==
    (lastEvent \in {"analyze", "autofix", "apply"})
        ~> (~loading /\ net = <<>> /\ message # <<>>)

\* C12 witness: a failed Generate Fix has brought the controller back to Idle
\* with the error as its status.
C12_Witness ==
    /\ lastEvent = "autofixSettled"
    /\ ~loading
    /\ net = <<>>
    /\ Len(message) = 2
    /\ message[1] = "Error: "

----------------------------------------------------------------------------
(* The findings renderer (components/FindingsPanel.jsx), which App renders  *)
(* from the findings of every state.                                        *)

\* String.prototype.toUpperCase on a type tag.
toUpperCase(t) ==
    CASE t = "info"    -> "INFO"
      [] t = "warning" -> "WARNING"
      [] t = "error"   -> "ERROR"
      [] OTHER         -> t

\* One <li>: its class and its text.
FindingRow(f) ==
    [className |-> f.type,
     text |-> <<"Line ", ToString(f.line), ":", " ", toUpperCase(f.type), " - ">>
              \o f.message \o <<" (">> \o f.rule \o <<")">>]

\* FindingsPanel({ findings }): null for an empty list, else the panel with
\* one row per finding.
FindingsPanel(list) ==
    IF Len(list) = 0
    THEN [kind |-> "null"]
    ELSE [kind |-> "list", title |-> "Findings",
          rows |-> [k \in 1..Len(list) |-> FindingRow(list[k])]]

\* The text carries the tokens of part, in order and next to each other.
Carries(text, part) ==
    \E k \in 0..(Len(text) - Len(part)) : SubSeq(text, k + 1, k + Len(part)) = part

\* C13: the renderer shows a prompt for an empty list, a success message for
\* a list that is one info finding, and for every other list one row per
\* finding, in order, with the finding's line, upper-cased type and message.
C13_RendererThreeWays ==
    LET out == FindingsPanel(findings)
    IN  IF findings = <<>>
        THEN out.kind = "prompt"
        ELSE IF Len(findings) = 1 /\ findings[1].type = "info"
        THEN out.kind = "success"
        ELSE /\ out.kind = "list"
             /\ Len(out.rows) = Len(findings)
             /\ \A k \in 1..Len(findings) :
                   /\ Carries(out.rows[k].text, <<ToString(findings[k].line)>>)
                   /\ Carries(out.rows[k].text, <<toUpperCase(findings[k].type)>>)
                   /\ Carries(out.rows[k].text, findings[k].message)

----------------------------------------------------------------------------
(* Properties of the single actions of the active controller. *)

\* The number of analyze calls in a net.
AnalyzeCalls(n) == Cardinality({i \in DOMAIN n : n[i].req.url = "/api/analyze"})

\* C14: the Analyze click clears the pending fix and dispatches one analyze
\* call for the fixed path with the buffer of that moment, no fix is pending
\* while an analyze call is outstanding, and a fulfilled analyze call
\* replaces findings by the list of its answer, or by the empty list when
\* the answer has none.
C14_AnalyzeDispatchAndReplace ==
    /\ [](AnalyzeCalls(net) > 0 => patchedCode = <<>>)
    /\ [][lastEvent' = "analyze" =>
            /\ patchedCode' = <<>>
            /\ net' = Append(net,
                        [req |-> [url |-> "/api/analyze",
                                  body |-> [files |-> <<[path |-> <<"main.py">>,
                                                         content |-> code]>>]],
                         state |-> "pending"])]_vars
    /\ [][\A i \in DOMAIN net :
            (/\ Consumes(i)
             /\ net[i].req.url = "/api/analyze"
             /\ net[i].state = "fulfilled")
            => findings' = IF "findings" \in DOMAIN net[i].response.data
                           THEN net[i].response.data.findings
                           ELSE <<>>]_vars

\* C14 witness: an analyze call for an edited buffer is outstanding while
\* earlier findings are still held.
C14_Witness ==
    /\ lastEvent = "analyze"
    /\ Len(net) = 1
    /\ net[1].req.body.files[1].content = <<"print('x')">>
    /\ findings # <<>>
    /\ patchedCode = <<>>

\* C15: no step of Generate Fix, the click or the handling of any outcome,
\* changes the buffer or the findings; and when a rejected generate_fix call
\* is consumed, the pending fix stays as it was, the busy flag goes down and
\* the status is the error's detail.
C15_GenerateFixFrame ==
    /\ [][lastEvent' \in {"autofix", "autofixSettled"} =>
            UNCHANGED <<code, findings>>]_vars
    /\ [][\A i \in DOMAIN net :
            (/\ Consumes(i)
             /\ net[i].req.url = "/api/generate_fix"
             /\ net[i].state = "rejected")
            => LET e == net[i].error
                   served == /\ "response" \in DOMAIN e
                             /\ "detail" \in DOMAIN e.response.data
                             /\ e.response.data.detail # <<>>
               IN  /\ patchedCode' = patchedCode
                   /\ UNCHANGED <<code, findings>>
                   /\ loading' = FALSE
                   /\ message' = <<"Error: ">> \o
                          (IF served THEN e.response.data.detail ELSE e.message)]_vars

\* C15 witness: a Generate Fix has been rejected while an earlier fix was
\* pending, and that fix and the findings are still there.
C15_Witness ==
    /\ lastEvent = "autofixSettled"
    /\ message = <<"Error: ", "Network Error">>
    /\ patchedCode # <<>>
    /\ findings # <<>>
    /\ ~loading


\* C16: Apply Fix dispatches nothing (no call to /api/apply_patch is ever in
\* the net and the step of Apply Fix leaves the net as it is), and the
\* controller does not analyze on its own: only the Analyze click adds an
\* analyze call, and findings that are empty stay empty while no analyze
\* call is outstanding.
C16_ApplyIsLocal ==
    /\ [](\A i \in DOMAIN net : net[i].req.url # "/api/apply_patch")
    /\ [][lastEvent' = "apply" => net' = net]_vars
    /\ [][AnalyzeCalls(net') > AnalyzeCalls(net) => lastEvent' = "analyze"]_vars
    /\ [][(findings = <<>> /\ AnalyzeCalls(net) = 0) => findings' = <<>>]_vars

\* C16 witness: Apply Fix has replaced the buffer by the fix, and nothing is
\* in flight.
C16_Witness ==
    /\ lastEvent = "apply"
    /\ code \in PatchTexts
    /\ findings = <<>>
    /\ patchedCode = <<>>
    /\ net = <<>>


\* C17: when a fulfilled generate_fix call is consumed whose answer has
\* success true and a patched text that is not empty, that text becomes the
\* pending fix, whatever was pending, and the status becomes the answer's
\* explanation, or the default message when the explanation is missing or
\* empty.
C17_UsableFixStored ==
    [][\A i \in DOMAIN net :
          (/\ Consumes(i)
           /\ net[i].req.url = "/api/generate_fix"
           /\ net[i].state = "fulfilled"
           /\ net[i].response.data.success
           /\ "patched_code" \in DOMAIN net[i].response.data
           /\ net[i].response.data.patched_code # <<>>)
          => LET d == net[i].response.data
                 explained == "explanation" \in DOMAIN d /\ d.explanation # <<>>
             IN  /\ patchedCode' = d.patched_code
                 /\ message' = IF explained
                               THEN d.explanation
                               ELSE <<"Fix generated successfully!">>]_vars

\* C17 witness: a fix is pending under the default status.
C17_Witness ==
    /\ lastEvent = "autofixSettled"
    /\ patchedCode = <<"print('z')">>
    /\ message = MsgFixDefault
    /\ ~loading

----------------------------------------------------------------------------
(* Properties across the actions of the active controller. *)

\* C18: in every reachable state in which a fix is pending, findings is not
\* empty and its first finding is not an info finding.
C18_PendingHasFixableFinding ==
    patchedCode # <<>> => (findings # <<>> /\ findings[1].type # "info")

\* C18 witness: a fix is pending in Idle, next to two findings.
C18_Witness ==
    /\ patchedCode # <<>>
    /\ Len(findings) = 2
    /\ lastEvent = "autofixSettled"
    /\ ~loading

\* C19: the editor accepts an edit in every reachable state, busy or not; an
\* edit changes the buffer alone, so findings and a pending fix outlive it;
\* and Apply Fix puts the pending text in place of whatever the buffer holds.
C19_EditChangesBufferOnly ==
    /\ [](ENABLED UserEdits)
    /\ [][lastEvent' = "edit" =>
            UNCHANGED <<findings, patchedCode, loading, message, net>>]_vars
    /\ [][(lastEvent' = "apply" /\ patchedCode # <<>>) => code' = patchedCode]_vars

\* C19 witness: the buffer was edited while a call was outstanding, with
\* findings and a pending fix of an earlier buffer still held.
C19_Witness ==
    /\ lastEvent = "edit"
    /\ loading
    /\ Len(net) = 1
    /\ patchedCode # <<>>
    /\ findings # <<>>
    /\ code = <<"print('x')">>
    /\ net[1].req.body.code # code

\* C20: a call leaves the net only by being handled, a settled call can
\* always be handled, an edit leaves the calls in flight as they were
\* dispatched, and the handling of a usable generate_fix answer stores its
\* text as the pending fix whether or not the buffer is still the one sent.
C20_ResponsesAlwaysApplied ==
    /\ [](\A i \in DOMAIN net :
             net[i].state # "pending" => ENABLED (AnalyzeReturns \/ GenerateFixReturns))
    /\ [][Len(net') < Len(net) =>
            /\ lastEvent' \in {"analyzeSettled", "autofixSettled"}
            /\ loading' = FALSE]_vars
    /\ [][lastEvent' = "edit" => net' = net]_vars
    /\ [][\A i \in DOMAIN net :
            (/\ lastEvent' = "autofixSettled"
             /\ net' = RemoveAt(net, i)
             /\ net[i].state = "fulfilled"
             /\ net[i].response.data.success
             /\ "patched_code" \in DOMAIN net[i].response.data
             /\ net[i].response.data.patched_code # <<>>)
            => /\ patchedCode' = net[i].response.data.patched_code
               /\ code' = code]_vars

\* C20 witness: a usable fix has come back for a buffer that the user has
\* edited since it was sent.
C20_Witness ==
    /\ Len(net) = 1
    /\ net[1].req.url = "/api/generate_fix"
    /\ net[1].state = "fulfilled"
    /\ net[1].response.data.success
    /\ TruthyText(net[1].response.data, "patched_code")
    /\ net[1].req.body.code # code
    /\ net[1].req.body.issue.rule = findings[1].rule
    /\ lastEvent = "edit"

====
